---- MODULE Spec2Model ----
(***************************************************************************)
(* State-machine model of the TronLink wallet connector:                   *)
(*   src/src/detect-provider.ts  the provider detector                     *)
(*   src/src/index.ts            the connector, in its two variants        *)
(*                               (lines 1-224: EVM-style provider,         *)
(*                                lines 225-427: Tron-native wallet)       *)
(* Every action is one run-to-completion step of the JavaScript event      *)
(* loop: the code between two suspension points of a handler.              *)
(***************************************************************************)
EXTENDS Integers, Sequences, FiniteSets, TLC

\* ------------------------------------------------------------------ bounds
\* Largest timeout option and the last instant of the clock.
MaxTimeout == 2
MaxTime == 3

\* ------------------------------------------------------- detector state
VARIABLES
  slot,           \* window.tronLink: "none", or the kind of the injected object
  announced,      \* the wallet has dispatched 'tronLink#initialized'
  now,            \* the clock
  mustBeTronLink, \* option mustBeTronLink
  timeout,        \* option timeout
  detCalls,       \* calls of detectTronProvider
  handled,        \* the latch of detectTronProvider
  listening,      \* the 'tronLink#initialized' listener is registered
  timer,          \* the timeout timer: "none", "armed", "fired"
  deadline,       \* the instant from which the timer may fire
  handleRuns,     \* runs of handleTronLink past its latch
  resolveCalls,   \* calls of the promise's resolve
  detResult,      \* the promise: "pending", "null", or the kind it resolved to
  resolvedAt      \* the instant of the first resolve, -1 before it

detVars == <<detCalls, handled, listening, timer, deadline, handleRuns,
             resolveCalls, detResult, resolvedAt>>
envVars == <<slot, announced, now>>
optVars == <<mustBeTronLink, timeout>>

\* The objects a wallet extension may put into window.tronLink: one flagged
\* isTronLink, one not flagged.
ProviderKinds == {"tronlink", "other"}

\* The objects flagged isTronLink: the wallet's own object, and two of the
\* siblings a container may list.
IsTronLink(p) == p \in {"tronlink", "tronlinkA", "tronlinkB"}

\* detect-provider.ts:72: tronLink && (!mustBeTronLink || tronLink.isTronLink)
Acceptable(s) == s # "none" /\ (~mustBeTronLink \/ IsTronLink(s))

\* handleTronLink without its latch: every firing resolves again.
HandleTronLinkNoLatch ==
  /\ handled' = TRUE
  /\ listening' = FALSE
  /\ handleRuns' = handleRuns + 1
  /\ resolveCalls' = resolveCalls + 1
  /\ detResult' = IF detResult = "pending"
                  THEN (IF Acceptable(slot) THEN slot ELSE "null")
                  ELSE detResult
  /\ resolvedAt' = IF detResult = "pending" THEN now ELSE resolvedAt

\* detect-provider.ts:62-83. A promise keeps its first resolution.
HandleTronLink ==
  IF handled
  THEN UNCHANGED <<handled, listening, handleRuns, resolveCalls, detResult, resolvedAt>>
  ELSE /\ handled' = TRUE
       /\ listening' = FALSE
       /\ handleRuns' = handleRuns + 1
       /\ resolveCalls' = resolveCalls + 1
       /\ detResult' = IF detResult = "pending"
                       THEN (IF Acceptable(slot) THEN slot ELSE "null")
                       ELSE detResult
       /\ resolvedAt' = IF detResult = "pending" THEN now ELSE resolvedAt

\* The executor without the else branch: handleTronLink is called at once
\* whether or not the slot is populated.
DetectTronProviderEager ==
  /\ detCalls' = detCalls + 1
  /\ HandleTronLink
  /\ UNCHANGED <<timer, deadline>>

\* The executor that waits for the event or the timer even when the slot is
\* already populated.
DetectTronProviderAlwaysWaits ==
  /\ detCalls' = detCalls + 1
  /\ listening' = TRUE
  /\ timer' = "armed"
  /\ deadline' = now + timeout
  /\ UNCHANGED <<handled, handleRuns, resolveCalls, detResult, resolvedAt>>

\* detect-provider.ts:40-60: the body of detectTronProvider, up to the
\* return of the promise.
DetectTronProvider ==
  /\ detCalls' = detCalls + 1
  /\ IF slot # "none"
     THEN /\ HandleTronLink
          /\ UNCHANGED <<timer, deadline>>
     ELSE /\ listening' = TRUE
          /\ timer' = "armed"
          /\ deadline' = now + timeout
          /\ UNCHANGED <<handled, handleRuns, resolveCalls, detResult, resolvedAt>>

\* detect-provider.ts:57-59: the timer's callback. A timer fires no earlier
\* than its delay, and is never cleared.
TimerFire ==
  /\ timer = "armed"
  /\ now >= deadline
  /\ timer' = "fired"
  /\ HandleTronLink
  /\ UNCHANGED <<detCalls, deadline, envVars>>

\* The wallet extension populates window.tronLink.
Inject(k) ==
  /\ slot = "none"
  /\ slot' = k
  /\ UNCHANGED <<announced, now, detVars>>

\* The wallet extension dispatches 'tronLink#initialized' once it has
\* populated the slot; detect-provider.ts:53-55 registered handleTronLink
\* with once: true.
Announce ==
  /\ slot # "none"
  /\ ~announced
  /\ announced' = TRUE
  /\ IF listening
     THEN HandleTronLink /\ UNCHANGED <<detCalls, timer, deadline>>
     ELSE UNCHANGED detVars
  /\ UNCHANGED <<slot, now>>

Tick ==
  /\ now < MaxTime
  /\ now' = now + 1
  /\ UNCHANGED <<slot, announced, detVars>>

DetInit ==
  /\ slot = "none" /\ announced = FALSE /\ now = 0
  /\ detCalls = 0 /\ handled = FALSE /\ listening = FALSE
  /\ timer = "none" /\ deadline = 0
  /\ handleRuns = 0 /\ resolveCalls = 0
  /\ detResult = "pending" /\ resolvedAt = -1

\* ------------------------------------------------------ connector state
\* Calls of connectEagerly / activate made on the one connector instance,
\* and the depth the re-verification recursion of activate may reach.
MaxCalls == 2
MaxDepth == 1

VARIABLES
  eagerConnection,  \* this.eagerConnection: "unset", "importing", "detecting", "done"
  provider,         \* this.provider: "unset" or the provider's kind
  tronlink,         \* this.tronlink (Tron-native variant): "null" or the wallet's kind
  listenerSets,     \* how many times the event listeners were attached
  listenersOn,      \* the objects the event listeners were attached to
  cancelActivation, \* this.cancelActivation (Tron-native variant): the call whose token it holds, 0 unset
  calls,            \* calls[c]: the position and locals of call c
  log,              \* log[c]: the action-layer calls and provider requests call c made, in order
  lastEv,           \* the last wallet event delivered to the listeners (its name and its
                    \* chain id or account list), what the listeners called, and
                    \* whether a flow had its chain-id and accounts requests outstanding then
  signer            \* the TronSigner in use: the object it is bound to and its operation

conVars == <<eagerConnection, provider, tronlink, listenerSets, listenersOn, cancelActivation>>
vars == <<slot, announced, now, mustBeTronLink, timeout, detVars, conVars, calls, log, lastEv,
          signer>>

Calls == 1..MaxCalls

\* index.ts:171: the provider's "unrecognized chain" error code
UnrecognizedChain == 4902
\* EIP-1193 "user rejected the request"
UserRejected == 4001
\* index.ts:312: the chain id the Tron-native variant reports
TronMainnet == 1000000000

\* Chain ids as the provider reports them: hex strings, here the digits after
\* "0x" ("0x1" and "0x1a").
ChainHexes == {<<1>>, <<1, 10>>}
AccountLists == {<<>>, <<"a1">>}
ErrorCodes == {UserRejected, UnrecognizedChain}

\* index.ts:27-29: Number.parseInt(chainId, 16)
RECURSIVE parseChainId(_)
parseChainId(h) ==
  IF h = <<>> THEN 0 ELSE parseChainId(SubSeq(h, 1, Len(h) - 1)) * 16 + h[Len(h)]

\* index.ts:161: desiredChainId.toString(16)
RECURSIVE toString16(_)
toString16(n) ==
  IF n < 16 THEN <<n>> ELSE Append(toString16(n \div 16), n % 16)

\* The chain a caller of activate may ask for.
DesiredChain == parseChainId(<<1, 10>>)
Args == {[t |-> "none", id |-> 0], [t |-> "num", id |-> DesiredChain],
         [t |-> "params", id |-> DesiredChain]}

NoErr == [name |-> "none", code |-> 0]
RpcError(code) == [name |-> "ProviderRpcError", code |-> code]
NoTronLinkError == [name |-> "NoTronLinkError", code |-> 0]
NoAccountsError == [name |-> "No accounts returned", code |-> 0]

\* No TronSigner has been constructed. tx: whether the transaction passed to
\* the operation has a recipient and a value; ext: the externally-owned
\* methods the operation has called, in order.
NoSigner == [bound |-> "none", op |-> "none", tx |-> [to |-> FALSE, value |-> FALSE],
             pc |-> "idle", ext |-> <<>>, out |-> "none", err |-> "none"]

NoEvent == [ev |-> "none", hex |-> <<>>, accs |-> <<>>, did |-> <<>>, inflight |-> FALSE]

IdleCall == [pc |-> "idle", kind |-> "none", arg |-> [t |-> "none", id |-> 0], d |-> 0,
             first |-> FALSE, rc |-> <<>>, ra |-> <<>>, err |-> NoErr, out |-> "none"]

\* One entry of a call's log: an action-layer call (startActivation, cancel,
\* update, resetState), a provider request (its method), or the recursive
\* activate. c, d name the activation token concerned (started by call c at
\* recursion depth d); chain and accs are the payload.
Ev(op, c, d, chain, accs) == [op |-> op, c |-> c, d |-> d, chain |-> chain, accs |-> accs]
Plain(op, c, d) == Ev(op, c, d, -1, <<>>)

Emit(c, es) == log' = [log EXCEPT ![c] = @ \o es]
Goto(c, r) == calls' = [calls EXCEPT ![c] = r]

Started(c, d) == \E i \in 1..Len(log[c]) : log[c][i] = Plain("startActivation", c, d)

\* The argument of the activate frame call c is in: the recursion passes the
\* numeric chain id (index.ts:189).
FrameArg(c) ==
  IF calls[c].d = 0 THEN calls[c].arg ELSE [t |-> "num", id |-> calls[c].arg.id]

\* A call whose await of isomorphicInitialize can resume: the caller that
\* created the promise waits for it; a later caller got an already resolved
\* promise (index.ts:54).
Resumable(c) ==
  calls[c].pc = "await" /\ (calls[c].first => eagerConnection = "done")

\* A continuation is queued: promise continuations run before the next
\* timer, event or provider response is delivered.
MicroPending ==
  \/ eagerConnection = "detecting" /\ detResult # "pending"
  \/ \E c \in Calls :
       \/ Resumable(c)
       \/ calls[c].pc \in {"catch", "swcatch", "recurse"}
       \/ calls[c].pc = "req" /\ calls[c].rc # <<>> /\ calls[c].ra # <<>>
       \/ calls[c].pc = "treq" /\ calls[c].rc # <<>>
       \/ calls[c].pc = "wreq" /\ calls[c].rc # <<>>
Quiet == ~MicroPending

\* isomorphicInitialize that forgets the memo: every call starts detection.
IsomorphicInitializeAgain ==
  eagerConnection' = "importing"

\* isomorphicInitialize that detects again when the last detection found no
\* provider.
IsomorphicInitializeRetriesAbsent ==
  eagerConnection' = IF eagerConnection = "unset" \/ (eagerConnection = "done" /\ provider = "unset")
                     THEN "importing" ELSE eagerConnection

\* index.ts:53-56 (and 335-338): the synchronous part of isomorphicInitialize.
IsomorphicInitialize ==
  eagerConnection' = IF eagerConnection # "unset" THEN eagerConnection ELSE "importing"

\* index.ts:56-58: the import has loaded, the detector is called.
ImportLoaded ==
  /\ eagerConnection = "importing"
  /\ eagerConnection' = "detecting"
  /\ DetectTronProvider
  /\ UNCHANGED <<envVars, optVars, signer, provider, tronlink, listenerSets, listenersOn, cancelActivation, calls, log, lastEv>>

\* Objects that hold a providers list (index.ts:16), put into the slot when
\* several wallets are installed: one whose second and third sibling are
\* flagged isTronLink, one with no flagged sibling, one with an empty list.
Containers == {"multi", "multiPlain", "multiEmpty"}

\* provider.providers; undefined (here the empty list) for any other object.
Siblings(k) ==
  CASE k = "multi" -> <<"coinbase", "tronlinkA", "tronlinkB">>
    [] k = "multiPlain" -> <<"coinbase", "metamask">>
    [] OTHER -> <<>>

\* The selection that always takes the first sibling.
SelectProviderFirst(k) ==
  IF Len(Siblings(k)) # 0 THEN Siblings(k)[1] ELSE k

\* index.ts:63-67: providers.find((p) => p.isTronLink) ?? providers[0], when
\* the providers list is non-empty.
SelectProvider(k) ==
  LET flagged == {i \in 1..Len(Siblings(k)) : IsTronLink(Siblings(k)[i])} IN
  IF Len(Siblings(k)) # 0
  THEN IF flagged # {}
       THEN Siblings(k)[CHOOSE i \in flagged : \A j \in flagged : i <= j]
       ELSE Siblings(k)[1]
  ELSE k

\* index.ts:58-93: the detector's promise has resolved.
InitializeEvm ==
  /\ eagerConnection = "detecting"
  /\ detResult # "pending"
  /\ eagerConnection' = "done"
  /\ IF detResult # "null"
     THEN /\ provider' = SelectProvider(detResult)
          /\ listenerSets' = listenerSets + 1
          /\ listenersOn' = listenersOn \cup {SelectProvider(detResult)}
     ELSE UNCHANGED <<provider, listenerSets, listenersOn>>
  /\ UNCHANGED <<envVars, optVars, signer, detVars, tronlink, cancelActivation, calls, log, lastEv>>

\* The next call made on the instance is call c.
NextCall(c) == calls[c].pc = "idle" /\ (c > 1 => calls[c - 1].pc # "idle")

\* ------------------------------------------- EVM variant (index.ts:1-224)

\* index.ts:99-102: connectEagerly up to its await.
ConnectEagerly(c) ==
  /\ NextCall(c)
  /\ Emit(c, <<Plain("startActivation", c, 0)>>)
  /\ IsomorphicInitialize
  /\ Goto(c, [IdleCall EXCEPT !.pc = "await", !.kind = "eager",
                              !.first = (eagerConnection = "unset")])
  /\ UNCHANGED <<envVars, optVars, signer, detVars, provider, tronlink, listenerSets, listenersOn, cancelActivation, lastEv>>

\* index.ts:103-108: after the await.
EagerResume(c) ==
  /\ calls[c].kind = "eager"
  /\ Resumable(c)
  /\ IF provider = "unset"
     THEN /\ Emit(c, <<Plain("cancel", c, 0)>>)
          /\ Goto(c, [calls[c] EXCEPT !.pc = "done", !.out = "ok"])
     ELSE /\ Emit(c, <<Plain("eth_chainId", c, 0), Plain("eth_accounts", c, 0)>>)
          /\ Goto(c, [calls[c] EXCEPT !.pc = "req"])
  /\ UNCHANGED <<envVars, optVars, signer, detVars, conVars, lastEv>>

\* The provider answers the chain-id request of call c.
RespondChainId(c, h) ==
  /\ Quiet
  /\ calls[c].pc = "req" /\ calls[c].rc = <<>>
  /\ Goto(c, [calls[c] EXCEPT !.rc = <<h>>])
  /\ UNCHANGED <<envVars, optVars, signer, detVars, conVars, log, lastEv>>

\* The provider answers the accounts request of call c.
RespondAccounts(c, a) ==
  /\ Quiet
  /\ calls[c].pc = "req" /\ calls[c].ra = <<>>
  /\ Goto(c, [calls[c] EXCEPT !.ra = <<a>>])
  /\ UNCHANGED <<envVars, optVars, signer, detVars, conVars, log, lastEv>>

\* The provider rejects one of the two requests: Promise.all rejects at once.
RejectRequest(c, code) ==
  /\ Quiet
  /\ calls[c].pc = "req" /\ (calls[c].rc = <<>> \/ calls[c].ra = <<>>)
  /\ Goto(c, [calls[c] EXCEPT !.pc = "catch", !.err = RpcError(code)])
  /\ UNCHANGED <<envVars, optVars, signer, detVars, conVars, log, lastEv>>

\* The handler that commits as soon as the chain id has arrived.
EagerThenChainIdOnly(c) ==
  /\ calls[c].kind = "eager" /\ calls[c].pc = "req"
  /\ calls[c].rc # <<>>
  /\ Emit(c, <<Ev("update", c, 0, parseChainId(calls[c].rc[1]), <<>>)>>)
  /\ Goto(c, [calls[c] EXCEPT !.pc = "done", !.out = "ok"])
  /\ UNCHANGED <<envVars, optVars, signer, detVars, conVars, lastEv>>

\* The handler that takes the first hex digit for the chain id.
EagerThenFirstDigit(c) ==
  /\ calls[c].kind = "eager" /\ calls[c].pc = "req"
  /\ calls[c].rc # <<>> /\ calls[c].ra # <<>>
  /\ IF Len(calls[c].ra[1]) # 0
     THEN /\ Emit(c, <<Ev("update", c, 0, calls[c].rc[1][1], calls[c].ra[1])>>)
          /\ Goto(c, [calls[c] EXCEPT !.pc = "done", !.out = "ok"])
     ELSE /\ Goto(c, [calls[c] EXCEPT !.pc = "catch", !.err = NoAccountsError])
          /\ UNCHANGED log
  /\ UNCHANGED <<envVars, optVars, signer, detVars, conVars, lastEv>>

\* index.ts:109-115: both requests have resolved.
EagerThen(c) ==
  /\ calls[c].kind = "eager" /\ calls[c].pc = "req"
  /\ calls[c].rc # <<>> /\ calls[c].ra # <<>>
  /\ IF Len(calls[c].ra[1]) # 0
     THEN /\ Emit(c, <<Ev("update", c, 0, parseChainId(calls[c].rc[1]), calls[c].ra[1])>>)
          /\ Goto(c, [calls[c] EXCEPT !.pc = "done", !.out = "ok"])
     ELSE /\ Goto(c, [calls[c] EXCEPT !.pc = "catch", !.err = NoAccountsError])
          /\ UNCHANGED log
  /\ UNCHANGED <<envVars, optVars, signer, detVars, conVars, lastEv>>

\* The handler that cancels the token instead of resetting the state.
EagerCatchCancels(c) ==
  /\ calls[c].kind = "eager" /\ calls[c].pc = "catch"
  /\ Emit(c, <<Plain("cancel", c, 0)>>)
  /\ Goto(c, [calls[c] EXCEPT !.pc = "done", !.out = "ok"])
  /\ UNCHANGED <<envVars, optVars, signer, detVars, conVars, lastEv>>

\* index.ts:116-122
EagerCatch(c) ==
  /\ calls[c].kind = "eager" /\ calls[c].pc = "catch"
  /\ Emit(c, <<Plain("resetState", c, 0)>>)
  /\ Goto(c, [calls[c] EXCEPT !.pc = "done", !.out = "ok"])
  /\ UNCHANGED <<envVars, optVars, signer, detVars, conVars, lastEv>>

\* index.ts:138-139: the token of a frame, unless the provider says it is
\* connected (connected: the value of this.provider.isConnected()).
StartUnlessConnected(c, d, connected) ==
  IF provider # "unset" /\ connected THEN <<>> ELSE <<Plain("startActivation", c, d)>>

\* index.ts:134-141: activate up to the return of isomorphicInitialize.
Activate(c, a, connected) ==
  /\ NextCall(c)
  /\ Emit(c, StartUnlessConnected(c, 0, connected))
  /\ IsomorphicInitialize
  /\ Goto(c, [IdleCall EXCEPT !.pc = "await", !.kind = "activate", !.arg = a,
                              !.first = (eagerConnection = "unset")])
  /\ UNCHANGED <<envVars, optVars, signer, detVars, provider, tronlink, listenerSets, listenersOn, cancelActivation, lastEv>>

\* index.ts:142-149
ActivateResume(c) ==
  /\ calls[c].kind = "activate"
  /\ Resumable(c)
  /\ IF provider = "unset"
     THEN /\ Goto(c, [calls[c] EXCEPT !.pc = "catch", !.err = NoTronLinkError])
          /\ UNCHANGED log
     ELSE /\ Emit(c, <<Plain("eth_chainId", c, calls[c].d),
                       Plain("eth_requestAccounts", c, calls[c].d)>>)
          /\ Goto(c, [calls[c] EXCEPT !.pc = "req"])
  /\ UNCHANGED <<envVars, optVars, signer, detVars, conVars, lastEv>>

\* index.ts:150-168: both requests have resolved. A frame that commits
\* resolves, and with it every frame that waits on it.
ActivateThen(c) ==
  /\ calls[c].kind = "activate" /\ calls[c].pc = "req"
  /\ calls[c].rc # <<>> /\ calls[c].ra # <<>>
  /\ LET receivedChainId == parseChainId(calls[c].rc[1])
         desiredChainId == FrameArg(c).id
     IN IF desiredChainId = 0 \/ receivedChainId = desiredChainId
        THEN /\ Emit(c, <<Ev("update", c, calls[c].d, receivedChainId, calls[c].ra[1])>>)
             /\ Goto(c, [calls[c] EXCEPT !.pc = "done", !.out = "ok",
                                         !.rc = <<>>, !.ra = <<>>])
        ELSE /\ Emit(c, <<Ev("wallet_switchEthereumChain", c, calls[c].d,
                             parseChainId(toString16(desiredChainId)), <<>>)>>)
             /\ Goto(c, [calls[c] EXCEPT !.pc = "switch", !.rc = <<>>, !.ra = <<>>])
  /\ UNCHANGED <<envVars, optVars, signer, detVars, conVars, lastEv>>

\* The provider accepts the switch-chain or the add-chain request. The
\* answers to these two requests are logged with the request's frame.
RequestAccepted(c) ==
  /\ Quiet
  /\ calls[c].pc \in {"switch", "add"}
  /\ calls[c].d < MaxDepth
  /\ Emit(c, <<Plain(calls[c].pc \o ".ok", c, calls[c].d)>>)
  /\ Goto(c, [calls[c] EXCEPT !.pc = "recurse"])
  /\ UNCHANGED <<envVars, optVars, signer, detVars, conVars, lastEv>>

\* The provider rejects the switch-chain request with an error code.
SwitchRejected(c, code) ==
  /\ Quiet
  /\ calls[c].pc = "switch"
  /\ Emit(c, <<Ev("switch.rejected", c, calls[c].d, code, <<>>)>>)
  /\ Goto(c, [calls[c] EXCEPT !.pc = "swcatch", !.err = RpcError(code)])
  /\ UNCHANGED <<envVars, optVars, signer, detVars, conVars, lastEv>>

\* The provider rejects the add-chain request with an error code.
AddRejected(c, code) ==
  /\ Quiet
  /\ calls[c].pc = "add"
  /\ Emit(c, <<Ev("add.rejected", c, calls[c].d, code, <<>>)>>)
  /\ Goto(c, [calls[c] EXCEPT !.pc = "catch", !.err = RpcError(code)])
  /\ UNCHANGED <<envVars, optVars, signer, detVars, conVars, lastEv>>

\* The handler without the typeof test: code 4902 alone triggers add-chain.
SwitchCatchAnyArg(c) ==
  /\ calls[c].pc = "swcatch"
  /\ IF calls[c].err.code = UnrecognizedChain
     THEN /\ Emit(c, <<Ev("wallet_addEthereumChain", c, calls[c].d,
                          parseChainId(toString16(FrameArg(c).id)), <<>>)>>)
          /\ Goto(c, [calls[c] EXCEPT !.pc = "add", !.err = NoErr])
     ELSE /\ Goto(c, [calls[c] EXCEPT !.pc = "catch"])
          /\ UNCHANGED log
  /\ UNCHANGED <<envVars, optVars, signer, detVars, conVars, lastEv>>

\* index.ts:169-188: the handler of a rejected switch-chain request.
SwitchCatch(c) ==
  /\ calls[c].pc = "swcatch"
  /\ IF calls[c].err.code = UnrecognizedChain /\ FrameArg(c).t # "num"
     THEN /\ Emit(c, <<Ev("wallet_addEthereumChain", c, calls[c].d,
                          parseChainId(toString16(FrameArg(c).id)), <<>>)>>)
          /\ Goto(c, [calls[c] EXCEPT !.pc = "add", !.err = NoErr])
     ELSE /\ Goto(c, [calls[c] EXCEPT !.pc = "catch"])
          /\ UNCHANGED log
  /\ UNCHANGED <<envVars, optVars, signer, detVars, conVars, lastEv>>

\* index.ts:189 and 134-141: the recursive activate(desiredChainId), up to
\* the return of its isomorphicInitialize.
Recurse(c, connected) ==
  /\ calls[c].pc = "recurse"
  /\ Emit(c, <<Ev("activate", c, calls[c].d + 1, FrameArg(c).id, <<>>)>>
             \o StartUnlessConnected(c, calls[c].d + 1, connected))
  /\ IsomorphicInitialize
  /\ Goto(c, [calls[c] EXCEPT !.pc = "await", !.d = @ + 1, !.first = FALSE])
  /\ UNCHANGED <<envVars, optVars, signer, detVars, provider, tronlink, listenerSets, listenersOn, cancelActivation, lastEv>>

\* The handler that rethrows without cancelling the token.
ActivateCatchNoCancel(c) ==
  /\ calls[c].kind = "activate" /\ calls[c].pc = "catch"
  /\ IF calls[c].d = 0
     THEN Goto(c, [calls[c] EXCEPT !.pc = "done", !.out = "err"])
     ELSE Goto(c, [calls[c] EXCEPT !.d = @ - 1])
  /\ UNCHANGED <<envVars, optVars, signer, detVars, conVars, lastEv, log>>

\* index.ts:192-195: cancel the frame's token, if it started one, and
\* rethrow to the frame's caller.
ActivateCatch(c) ==
  /\ calls[c].kind = "activate" /\ calls[c].pc = "catch"
  /\ Emit(c, IF Started(c, calls[c].d) THEN <<Plain("cancel", c, calls[c].d)>> ELSE <<>>)
  /\ IF calls[c].d = 0
     THEN Goto(c, [calls[c] EXCEPT !.pc = "done", !.out = "err"])
     ELSE Goto(c, [calls[c] EXCEPT !.d = @ - 1])
  /\ UNCHANGED <<envVars, optVars, signer, detVars, conVars, lastEv>>

Init ==
  /\ DetInit
  /\ mustBeTronLink = FALSE /\ timeout = 0
  /\ eagerConnection = "unset" /\ provider = "unset" /\ tronlink = "null"
  /\ listenerSets = 0 /\ listenersOn = {} /\ cancelActivation = 0
  /\ calls = [c \in Calls |-> IdleCall]
  /\ log = [c \in Calls |-> <<>>]
  /\ lastEv = NoEvent
  /\ signer = NoSigner

\* The environment's steps, delivered when no continuation is queued.
WalletInjects(k) ==
  Quiet /\ Inject(k) /\ UNCHANGED <<optVars, signer, conVars, calls, log, lastEv>>

WalletAnnounces ==
  Quiet /\ Announce /\ UNCHANGED <<optVars, signer, conVars, calls, log, lastEv>>

TimeoutFires ==
  Quiet /\ TimerFire /\ UNCHANGED <<optVars, signer, conVars, calls, log, lastEv>>

\* ---------------------------------- the listeners (index.ts:69-92)
RECURSIVE Times(_, _)
Times(es, n) == IF n = 0 THEN <<>> ELSE es \o Times(es, n - 1)

\* What one set of listeners calls when the provider emits event ev with
\* chain id h (connect, chainChanged) or account list a (accountsChanged).
\* An update that carries one field only is logged under that field's name.
OnProviderEvent(ev, h, a) ==
  CASE ev = "connect" -> <<Ev("update.chainId", 0, 0, parseChainId(h), <<>>)>>
    [] ev = "disconnect" -> <<Plain("resetState", 0, 0), Plain("onError", 0, 0)>>
    [] ev = "chainChanged" -> <<Ev("update.chainId", 0, 0, parseChainId(h), <<>>)>>
    [] ev = "accountsChanged" ->
         IF Len(a) = 0 THEN <<Plain("resetState", 0, 0)>>
         ELSE <<Ev("update.accounts", 0, 0, -1, a)>>

ProviderEvents == {"connect", "disconnect", "chainChanged", "accountsChanged"}

\* A flow is between issuing its chain-id and accounts requests
\* (index.ts:105-108, 145-149) and the handler of their results.
RequestsOutstanding == \E c \in Calls : calls[c].pc = "req"

\* The connector's provider emits an event: every set of listeners attached
\* to it handles it.
ProviderEmits(ev, h, a) ==
  /\ Quiet
  /\ listenerSets > 0 /\ provider \in listenersOn
  /\ lastEv' = [ev |-> ev,
                hex |-> IF ev \in {"connect", "chainChanged"} THEN h ELSE <<>>,
                accs |-> IF ev = "accountsChanged" THEN a ELSE <<>>,
                did |-> Times(OnProviderEvent(ev, h, a), listenerSets),
                inflight |-> RequestsOutstanding]
  /\ UNCHANGED <<envVars, optVars, signer, detVars, conVars, calls, log>>

\* The caller has seen the outcome of call c; the slot serves the next call.
Return(c) ==
  /\ calls[c].pc = "done"
  /\ Goto(c, IdleCall)
  /\ log' = [log EXCEPT ![c] = <<>>]
  /\ UNCHANGED <<envVars, optVars, signer, detVars, conVars, lastEv>>

\* ---------------------------------- watchAsset (index.ts:198-223, 400-426)
\* index.ts:204, 220: the errors of the EVM variant
NoProviderError == [name |-> "No provider", code |-> 0]
RejectedError == [name |-> "Rejected", code |-> 0]
\* index.ts:407: the code of the Tron-native variant's "No provider" error
NoProviderCode == -32001

\* index.ts:204-218 (and 407-421): watchAsset up to its request; noProvider
\* is the error the variant throws without a provider.
WatchAssetWith(c, noProvider) ==
  /\ NextCall(c)
  /\ IF provider = "unset"
     THEN /\ Goto(c, [IdleCall EXCEPT !.pc = "done", !.kind = "watch",
                                      !.out = "err", !.err = noProvider])
          /\ UNCHANGED log
     ELSE /\ Emit(c, <<Plain("wallet_watchAsset", c, 0)>>)
          /\ Goto(c, [IdleCall EXCEPT !.pc = "wreq", !.kind = "watch"])
  /\ UNCHANGED <<envVars, optVars, signer, detVars, conVars, lastEv>>

\* The provider answers the wallet_watchAsset request of call c with a
\* truthy or a falsy result.
WatchRespond(c, success) ==
  /\ Quiet
  /\ calls[c].pc = "wreq" /\ calls[c].rc = <<>>
  /\ Goto(c, [calls[c] EXCEPT !.rc = <<success>>])
  /\ UNCHANGED <<envVars, optVars, signer, detVars, conVars, log, lastEv>>

\* The provider rejects the request: watchAsset has no handler for it.
WatchRejected(c) ==
  /\ Quiet
  /\ calls[c].pc = "wreq" /\ calls[c].rc = <<>>
  /\ Goto(c, [calls[c] EXCEPT !.pc = "done", !.out = "err", !.err = RpcError(UserRejected)])
  /\ UNCHANGED <<envVars, optVars, signer, detVars, conVars, log, lastEv>>

\* index.ts:219-222 (and 422-425); rejected is the error the variant throws
\* for a falsy result.
WatchThenWith(c, rejected) ==
  /\ calls[c].pc = "wreq" /\ calls[c].rc # <<>>
  /\ IF calls[c].rc[1]
     THEN Goto(c, [calls[c] EXCEPT !.pc = "done", !.out = "true"])
     ELSE Goto(c, [calls[c] EXCEPT !.pc = "done", !.out = "err", !.err = rejected])
  /\ UNCHANGED <<envVars, optVars, signer, detVars, conVars, log, lastEv>>

\* The handler that asks again after a falsy result.
WatchThenRetries(c) ==
  /\ calls[c].pc = "wreq" /\ calls[c].rc # <<>>
  /\ IF calls[c].rc[1]
     THEN Goto(c, [calls[c] EXCEPT !.pc = "done", !.out = "true"]) /\ UNCHANGED log
     ELSE /\ Emit(c, <<Plain("wallet_watchAsset", c, 0)>>)
          /\ Goto(c, [calls[c] EXCEPT !.rc = <<>>])
  /\ UNCHANGED <<envVars, optVars, signer, detVars, conVars, lastEv>>

\* index.ts:198-223: the EVM variant
WatchAsset(c) == WatchAssetWith(c, NoProviderError)
WatchThen(c) == WatchThenWith(c, RejectedError)

\* The steps of the initializer and of the environment.
Background ==
  \/ ImportLoaded
  \/ InitializeEvm
  \/ WalletInjects("tronlink")
  \/ WalletAnnounces
  \/ TimeoutFires

\* The steps of call c that both specifications of the EVM variant share.
Flow(c) ==
  \/ ConnectEagerly(c)
  \/ EagerResume(c)
  \/ EagerThen(c)
  \/ EagerCatch(c)
  \/ ActivateResume(c)
  \/ ActivateThen(c)
  \/ ActivateCatch(c)
  \/ \E h \in ChainHexes : RespondChainId(c, h)
  \/ \E a \in AccountLists : RespondAccounts(c, a)
  \/ RejectRequest(c, UserRejected)

\* Spec: up to MaxCalls calls of connectEagerly and of activate without a
\* desired chain, in every interleaving.
Next ==
  \/ \E c \in Calls : Flow(c)
  \/ \E c \in Calls, ic \in BOOLEAN : Activate(c, [t |-> "none", id |-> 0], ic)
  \/ Background

Spec == Init /\ [][Next]_vars

\* SpecChain: calls made one after the other, activate with every argument,
\* the chain switch, the add-chain fallback and the recursion, watchAsset,
\* and the provider's events.
NextChain ==
  \/ Flow(1)
  \/ \E a \in Args, ic \in BOOLEAN : Activate(1, a, ic)
  \/ SwitchCatch(1)
  \/ \E ic \in BOOLEAN : Recurse(1, ic)
  \/ RequestAccepted(1)
  \/ \E e \in ErrorCodes : SwitchRejected(1, e)
  \/ AddRejected(1, UserRejected)
  \/ WatchAsset(1)
  \/ \E ok \in BOOLEAN : WatchRespond(1, ok)
  \/ WatchRejected(1)
  \/ WatchThen(1)
  \/ Return(1)
  \/ \E ev \in ProviderEvents, h \in ChainHexes, a \in AccountLists : ProviderEmits(ev, h, a)
  \/ \E k \in Containers : WalletInjects(k)
  \/ Background

SpecChain == Init /\ [][NextChain]_vars

\* ------------------------------ Tron-native variant (index.ts:225-427)
TronLinkError(code) == [name |-> "TronLinkError", code |-> code]

\* this.cancelActivation?.(): the token the field holds is cancelled,
\* whichever call started it.
CancelField == IF cancelActivation = 0 THEN <<>> ELSE <<Plain("cancel", cancelActivation, 0)>>

\* index.ts:340-369: the detector's promise has resolved. ready: whether the
\* wallet exposes tronWeb at this moment.
InitializeTron(ready) ==
  /\ eagerConnection = "detecting"
  /\ detResult # "pending"
  /\ eagerConnection' = "done"
  /\ tronlink' = detResult
  /\ provider' = IF detResult # "null" /\ ready THEN detResult ELSE "unset"
  /\ listenerSets' = listenerSets + 1
  /\ listenersOn' = listenersOn \cup {"window"}
  /\ UNCHANGED <<envVars, optVars, signer, detVars, cancelActivation, calls, log, lastEv>>

\* index.ts:375-377: connectEagerly up to its await.
TronConnectEagerly(c) ==
  /\ NextCall(c)
  /\ cancelActivation' = c
  /\ Emit(c, <<Plain("startActivation", c, 0)>>)
  /\ IsomorphicInitialize
  /\ Goto(c, [IdleCall EXCEPT !.pc = "await", !.kind = "eager",
                              !.first = (eagerConnection = "unset")])
  /\ UNCHANGED <<envVars, optVars, signer, detVars, provider, tronlink, listenerSets, listenersOn, lastEv>>

\* index.ts:387-391: activate up to its await.
TronActivate(c, connected) ==
  /\ NextCall(c)
  /\ IF provider # "unset" /\ connected
     THEN UNCHANGED <<cancelActivation, log>>
     ELSE cancelActivation' = c /\ Emit(c, <<Plain("startActivation", c, 0)>>)
  /\ IsomorphicInitialize
  /\ Goto(c, [IdleCall EXCEPT !.pc = "await", !.kind = "activate",
                              !.first = (eagerConnection = "unset")])
  /\ UNCHANGED <<envVars, optVars, signer, detVars, provider, tronlink, listenerSets, listenersOn, lastEv>>

\* index.ts:289-293: connect() up to its request.
Connect(c) ==
  IF tronlink = "null"
  THEN /\ Emit(c, CancelField)
       /\ Goto(c, [calls[c] EXCEPT !.pc = "done", !.out = "ok"])
  ELSE /\ Emit(c, <<Plain("tron_requestAccounts", c, 0)>>)
       /\ Goto(c, [calls[c] EXCEPT !.pc = "treq"])

\* index.ts:379-384: connectEagerly after its await.
TronEagerResume(c) ==
  /\ calls[c].kind = "eager"
  /\ Resumable(c)
  /\ IF tronlink = "null"
     THEN /\ Emit(c, CancelField)
          /\ Goto(c, [calls[c] EXCEPT !.pc = "done", !.out = "err", !.err = NoTronLinkError])
     ELSE Connect(c)
  /\ UNCHANGED <<envVars, optVars, signer, detVars, conVars, lastEv>>

\* index.ts:393: activate after its await.
TronActivateResume(c) ==
  /\ calls[c].kind = "activate"
  /\ Resumable(c)
  /\ Connect(c)
  /\ UNCHANGED <<envVars, optVars, signer, detVars, conVars, lastEv>>

\* What the wallet answers to tron_requestAccounts: nothing (locked), a
\* refusal (code 4001), or code 200 with or without a default address.
TronAnswers == {"locked", "refused", "granted", "grantedNoAddress"}

TronRespond(c, res) ==
  /\ Quiet
  /\ calls[c].pc = "treq" /\ calls[c].rc = <<>>
  /\ Goto(c, [calls[c] EXCEPT !.rc = <<res>>])
  /\ UNCHANGED <<envVars, optVars, signer, detVars, conVars, log, lastEv>>

\* The request is rejected.
TronReject(c) ==
  /\ Quiet
  /\ calls[c].pc = "treq" /\ calls[c].rc = <<>>
  /\ Goto(c, [calls[c] EXCEPT !.pc = "catch", !.err = TronLinkError(UserRejected)])
  /\ UNCHANGED <<envVars, optVars, signer, detVars, conVars, log, lastEv>>

\* index.ts:294-316
TronThen(c) ==
  /\ calls[c].pc = "treq" /\ calls[c].rc # <<>>
  /\ LET res == calls[c].rc[1] IN
     CASE res = "locked" ->
            /\ Goto(c, [calls[c] EXCEPT !.pc = "catch", !.rc = <<>>, !.err = TronLinkError(100)])
            /\ UNCHANGED <<provider, log>>
       [] res = "refused" ->
            /\ Goto(c, [calls[c] EXCEPT !.pc = "catch", !.rc = <<>>, !.err = TronLinkError(UserRejected)])
            /\ UNCHANGED <<provider, log>>
       [] res = "granted" ->
            /\ provider' = tronlink
            /\ Emit(c, <<Ev("update", c, 0, TronMainnet, <<"a1">>)>>)
            /\ Goto(c, [calls[c] EXCEPT !.pc = "done", !.rc = <<>>, !.out = "ok"])
       [] res = "grantedNoAddress" ->
            /\ provider' = tronlink
            /\ Goto(c, [calls[c] EXCEPT !.pc = "catch", !.rc = <<>>, !.err = NoAccountsError])
            /\ UNCHANGED log
  /\ UNCHANGED <<envVars, optVars, signer, detVars, eagerConnection, tronlink, listenerSets, listenersOn,
                 cancelActivation, lastEv>>

\* index.ts:317-332
TronCatch(c) ==
  /\ calls[c].pc = "catch"
  /\ Emit(c, CancelField)
  /\ Goto(c, [calls[c] EXCEPT !.pc = "done", !.out = "err"])
  /\ UNCHANGED <<envVars, optVars, signer, detVars, conVars, lastEv>>

\* index.ts:343-369: what the message listener calls for a window message
\* with the given action. ready: whether this.tronlink?.tronWeb is set;
\* mainChain: whether the node's chain is "_".
OnMessage(action, ready, mainChain) ==
  CASE action = "accountsChanged" ->
         IF ~ready THEN <<Plain("resetState", 0, 0)>>
         ELSE <<Ev("update", 0, 0, TronMainnet, <<"a1">>)>>
    [] action = "disconnectWeb" -> <<Plain("resetState", 0, 0), Plain("onError", 0, 0)>>
    [] action = "rejectWeb" -> <<Plain("onError", 0, 0)>>
    [] action = "setNode" ->
         <<Ev("update.chainId", 0, 0, IF mainChain THEN TronMainnet ELSE TronMainnet + 1, <<>>)>>

MessageActions == {"accountsChanged", "disconnectWeb", "rejectWeb", "setNode"}

\* A window message arrives: every attached listener handles it.
WindowMessage(action, ready, mainChain) ==
  /\ Quiet
  /\ listenerSets > 0 /\ "window" \in listenersOn
  /\ lastEv' = [ev |-> action,
                hex |-> <<>>,
                accs |-> IF action = "accountsChanged" THEN <<"a1">> ELSE <<>>,
                did |-> Times(OnMessage(action, tronlink # "null" /\ ready, mainChain), listenerSets),
                inflight |-> RequestsOutstanding]
  /\ UNCHANGED <<envVars, optVars, signer, detVars, conVars, calls, log>>

\* index.ts:400-426: watchAsset of the Tron-native variant
TronWatchAsset(c) == WatchAssetWith(c, TronLinkError(NoProviderCode))
TronWatchThen(c) == WatchThenWith(c, TronLinkError(UserRejected))

\* SpecTron: up to MaxCalls calls of connectEagerly, activate and watchAsset
\* on one Tron-native connector, in every interleaving.
NextTron ==
  \/ \E c \in Calls : TronConnectEagerly(c)
  \/ \E c \in Calls, ic \in BOOLEAN : TronActivate(c, ic)
  \/ \E c \in Calls : TronEagerResume(c)
  \/ \E c \in Calls : TronActivateResume(c)
  \/ \E c \in Calls, r \in TronAnswers : TronRespond(c, r)
  \/ \E c \in Calls : TronReject(c)
  \/ \E c \in Calls : TronThen(c)
  \/ \E c \in Calls : TronCatch(c)
  \/ \E c \in Calls : TronWatchAsset(c)
  \/ \E c \in Calls, ok \in BOOLEAN : WatchRespond(c, ok)
  \/ \E c \in Calls : WatchRejected(c)
  \/ \E c \in Calls : TronWatchThen(c)
  \/ \E m \in MessageActions, r \in BOOLEAN, mc \in BOOLEAN : WindowMessage(m, r, mc)
  \/ ImportLoaded
  \/ \E r \in BOOLEAN : InitializeTron(r)
  \/ WalletInjects("tronlink")
  \/ WalletAnnounces
  \/ TimeoutFires

SpecTron == Init /\ [][NextTron]_vars

\* ------------------------------------------------- the detector alone
\* detectTronProvider is called once, with any options.
DetectCall ==
  /\ detCalls = 0
  /\ DetectTronProvider
  /\ UNCHANGED <<envVars, optVars, signer, conVars, calls, log, lastEv>>

ClockTicks == Tick /\ UNCHANGED <<optVars, signer, conVars, calls, log, lastEv>>

InitDetect ==
  /\ DetInit
  /\ mustBeTronLink \in BOOLEAN /\ timeout \in 0..MaxTimeout
  /\ eagerConnection = "unset" /\ provider = "unset" /\ tronlink = "null"
  /\ listenerSets = 0 /\ listenersOn = {} /\ cancelActivation = 0
  /\ calls = [c \in Calls |-> IdleCall]
  /\ log = [c \in Calls |-> <<>>]
  /\ lastEv = NoEvent
  /\ signer = NoSigner

NextDetect ==
  \/ DetectCall
  \/ \E k \in ProviderKinds : WalletInjects(k)
  \/ WalletAnnounces
  \/ TimeoutFires
  \/ ClockTicks

SpecDetect == InitDetect /\ [][NextDetect]_vars

\* ------------------------------------------------ the signer (signer.ts)
\* What a TronSigner may be constructed with (its constructor takes any
\* value): nothing, an object that has no tronWeb property, or the wallet's
\* trx object, which refers back to its tronWeb (index.ts:307).
BoundObjects == {"undefined", "bare", "trx"}

SignerOps == {"getAddress", "signMessage", "signTransaction", "sendTransaction",
              "sendTransactionWithSign"}
\* signer.ts:12, 27, 39: the operations declared async
AsyncOps == {"signMessage", "sendTransaction", "sendTransactionWithSign"}
Transactions == [to : BOOLEAN, value : BOOLEAN]

\* The externally-owned methods an operation calls before its first
\* suspension without waiting for them (signer.ts:14).
SyncCalls(op) == IF op = "signMessage" THEN <<"tronWeb.toHex">> ELSE <<>>

\* The externally-owned methods whose promise an operation waits for or
\* returns, in order (signer.ts:15, 24, 33, 47-54).
AsyncCalls(op) ==
  CASE op = "getAddress" -> <<>>
    [] op = "signMessage" -> <<"tronWeb.trx.sign">>
    [] op = "signTransaction" -> <<"sign">>
    [] op = "sendTransaction" -> <<"tronWeb.trx.sendTransaction">>
    [] op = "sendTransactionWithSign" ->
         <<"tronWeb.transactionBuilder.sendTrx", "tronWeb.trx.sign",
           "tronWeb.trx.sendRawTransaction">>

\* signer.ts:57-59: new TronSigner(b)
NewSigner(b) ==
  /\ signer.pc = "idle"
  /\ signer' = [NoSigner EXCEPT !.bound = b]
  /\ UNCHANGED <<envVars, optVars, detVars, conVars, calls, log, lastEv>>

Settled(s, out, err) == [s EXCEPT !.pc = "done", !.out = out, !.err = err]

\* signer.ts:7-55: an operation up to its first suspension. The test
\* `!this.provider.tronWeb` reads a property of the bound object: on
\* undefined the read throws a TypeError, which an async operation turns
\* into its rejection and any other operation throws to its caller.
SignerCall(op, tx) ==
  /\ signer.pc = "idle" /\ signer.bound # "none"
  /\ LET s == [signer EXCEPT !.op = op, !.tx = tx] IN
     signer' =
       IF signer.bound = "undefined"
       THEN Settled(s, IF op \in AsyncOps THEN "rejected" ELSE "thrown", "TypeError")
       ELSE IF signer.bound = "bare"
       THEN Settled(s, "rejected", "No provider")
       ELSE IF op = "sendTransaction" /\ ~tx.to /\ ~tx.value
       THEN Settled(s, "rejected", "No data")
       ELSE IF AsyncCalls(op) = <<>>
       THEN Settled(s, "returned", "none")
       ELSE [s EXCEPT !.pc = "wait", !.ext = SyncCalls(op) \o <<AsyncCalls(op)[1]>>]
  /\ UNCHANGED <<envVars, optVars, detVars, conVars, calls, log, lastEv>>

\* How many of the operation's awaited methods have been called.
Awaited(s) == Len(s.ext) - Len(SyncCalls(s.op))

\* The promise of the externally-owned method the operation waits for
\* settles: a rejection rejects the operation, a result lets it go on to its
\* next method or resolve.
ExternSettles(ok) ==
  /\ signer.pc = "wait"
  /\ signer' =
       IF ~ok THEN Settled(signer, "rejected", "external")
       ELSE IF Awaited(signer) < Len(AsyncCalls(signer.op))
       THEN [signer EXCEPT !.ext = Append(@, AsyncCalls(signer.op)[Awaited(signer) + 1])]
       ELSE Settled(signer, "resolved", "none")
  /\ UNCHANGED <<envVars, optVars, detVars, conVars, calls, log, lastEv>>

\* The caller has seen the outcome; the signer serves the next operation.
SignerReturn ==
  /\ signer.pc = "done"
  /\ signer' = [NoSigner EXCEPT !.bound = signer.bound]
  /\ UNCHANGED <<envVars, optVars, detVars, conVars, calls, log, lastEv>>

\* SpecSigner: signers bound to any object, their operations one after the
\* other with any transaction.
NextSigner ==
  \/ \E b \in BoundObjects : NewSigner(b)
  \/ \E op \in SignerOps, tx \in Transactions : SignerCall(op, tx)
  \/ \E ok \in BOOLEAN : ExternSettles(ok)
  \/ SignerReturn

SpecSigner == Init /\ [][NextSigner]_vars

\* =====================================================================
\* The claims
\* =====================================================================

\* How many entries of call c's log satisfy: op at frame d.
N(c, op, d) == Cardinality({i \in 1..Len(log[c]) : log[c][i].op = op /\ log[c][i].d = d})

\* How many times the token started by call c at depth d was cancelled, by
\* whichever call.
CancelsOf(c, d) ==
  Cardinality(UNION {{<<k, i>> : i \in {j \in 1..Len(log[k]) : log[k][j] = Plain("cancel", c, d)}} :
                      k \in Calls})

\* How many update or resetState calls the flow of call c made.
Commits(c) ==
  Cardinality({i \in 1..Len(log[c]) : log[c][i].op \in {"update", "resetState"}})

\* ---- C6 ----------------------------------------------------------------
\* C6: whatever the order of the 'tronLink#initialized' event and the
\* timer, the resolution logic of the detector runs at most once, resolve
\* is called exactly as often, the promise is settled exactly when the
\* logic has run, and it settles to a provider or to null (never rejects).
C6_ResolvedOnce ==
  /\ handleRuns <= 1
  /\ resolveCalls = handleRuns
  /\ (detResult # "pending") <=> (handleRuns = 1)
  /\ detResult \in {"pending", "null"} \cup ProviderKinds

\* Both fired: the event resolved the promise before the timer was due, and
\* the timer fired afterwards.
C6_Witness ==
  /\ timer = "fired" /\ announced
  /\ detResult \in ProviderKinds
  /\ resolvedAt < deadline

\* ---- C7 ----------------------------------------------------------------
\* C7: while window.tronLink has never been populated, a settled detect
\* promise holds null, was settled by the timer, and not before the
\* timeout had elapsed since the call.
C7_NullNotBeforeTimeout ==
  (detResult # "pending" /\ slot = "none") =>
    /\ detResult = "null"
    /\ timer = "fired"
    /\ resolvedAt >= deadline

C7_Witness ==
  /\ detResult = "null" /\ slot = "none"
  /\ timeout = MaxTimeout /\ resolvedAt >= MaxTimeout

\* ---- C1 ----------------------------------------------------------------
\* C1: activate fails with NoTronLinkError only if detection has completed
\* and resolved to no provider.
C1_AbsenceOnlyAfterDetection ==
  \A c \in Calls :
    (calls[c].kind = "activate" /\ calls[c].err = NoTronLinkError) => detResult = "null"

\* ---- C2 ----------------------------------------------------------------
\* How often the token started by call c at depth d has been terminated: by
\* a cancel, or by an update or resetState that the flow of call c committed.
Terminations(c, d) == CancelsOf(c, d) + Commits(c)

\* C2: every started activation token is terminated at most once, exactly
\* once when its call has settled, and is cancelled only by its own call.
C2_TokenTerminatedOnce ==
  \A c \in Calls : \A d \in 0..MaxDepth :
    Started(c, d) =>
      /\ Terminations(c, d) <= 1
      /\ (calls[c].pc = "done" => Terminations(c, d) = 1)
      /\ \A k \in Calls \ {c} : \A i \in 1..Len(log[k]) : log[k][i] # Plain("cancel", c, d)

\* ---- C8 ----------------------------------------------------------------
\* C8: a connectEagerly that has settled on an instance whose detection
\* resolved to no provider resolved without throwing, cancelled its token
\* once, and made no update and no resetState call.
C8_EagerAbsentIsSilent ==
  \A c \in Calls :
    (calls[c].kind = "eager" /\ calls[c].pc = "done" /\ detResult = "null") =>
      /\ calls[c].out = "ok"
      /\ CancelsOf(c, 0) = 1
      /\ Commits(c) = 0

\* ---- C5 ----------------------------------------------------------------
\* C5: no update call carries an empty account list, from a flow or from a
\* listener.
C5_NoEmptyAccountsUpdate ==
  /\ \A c \in Calls : \A i \in 1..Len(log[c]) :
       log[c][i].op = "update" => Len(log[c][i].accs) > 0
  /\ \A i \in 1..Len(lastEv.did) :
       lastEv.did[i].op \in {"update", "update.accounts"} => Len(lastEv.did[i].accs) > 0

\* ---- C3 ----------------------------------------------------------------
\* The activate frame of call c at depth d has failed: its rejection has
\* reached its caller (the frame above it, or the caller of activate).
FrameFailed(c, d) ==
  /\ calls[c].kind = "activate"
  /\ \/ calls[c].pc = "done" /\ calls[c].out = "err" /\ (d = 0 \/ N(c, "activate", d) = 1)
     \/ d > calls[c].d /\ N(c, "activate", d) = 1

\* C3: the token an activate frame started is cancelled exactly once by the
\* time the frame's rejection reaches its caller, and is not cancelled
\* before the frame fails.
C3_CancelledOnceOnFailure ==
  \A c \in Calls : \A d \in 0..MaxDepth :
    (calls[c].kind = "activate" /\ Started(c, d)) =>
      CancelsOf(c, d) = (IF FrameFailed(c, d) THEN 1 ELSE 0)

\* A failure inside the recursive re-verification: both frames had started
\* a token, both tokens are cancelled once.
C3_Witness ==
  \E c \in Calls :
    /\ calls[c].pc = "done" /\ calls[c].out = "err"
    /\ Started(c, 0) /\ Started(c, 1)
    /\ CancelsOf(c, 0) = 1 /\ CancelsOf(c, 1) = 1

\* ---- C4 ----------------------------------------------------------------
\* C4 as stated: detection runs at most once and the listeners are attached
\* at most once, and once initialization has completed, detection has run
\* once and one set of listeners is attached.
C4_OneDetectionOneListenerSet ==
  /\ detCalls <= 1 /\ listenerSets <= 1
  /\ eagerConnection = "done" => (detCalls = 1 /\ listenerSets = 1)

\* C4 as amended: detection runs exactly once however many calls are made,
\* and the listeners are attached at most once: once when detection
\* resolved to a provider, never when it resolved to no provider.
C4_OneDetectionAtMostOneListenerSet ==
  /\ detCalls <= 1 /\ listenerSets <= 1
  /\ eagerConnection \in {"detecting", "done"} => detCalls = 1
  /\ eagerConnection = "done" => listenerSets = (IF detResult = "null" THEN 0 ELSE 1)
  /\ eagerConnection # "done" => listenerSets = 0

\* Every call of the instance has gone through the initializer, detection
\* found a provider, and one set of listeners is attached.
C4_Witness ==
  /\ \A c \in Calls : calls[c].pc # "idle"
  /\ eagerConnection = "done" /\ detResult # "null"
  /\ detCalls = 1 /\ listenerSets = 1

\* ---- C9 ----------------------------------------------------------------
\* C9: a connectEagerly that found a provider and then failed (zero
\* accounts, or a rejected request) has called resetState once, update and
\* cancel never, and has resolved; and connectEagerly never calls update
\* with an empty account list.
C9_EagerFailureResets ==
  \A c \in Calls :
    calls[c].kind = "eager" =>
      /\ \A i \in 1..Len(log[c]) : log[c][i].op = "update" => Len(log[c][i].accs) > 0
      /\ (calls[c].pc = "done" /\ N(c, "eth_accounts", 0) = 1 /\ N(c, "update", 0) = 0) =>
           /\ calls[c].err \in {NoAccountsError, RpcError(UserRejected)}
           /\ N(c, "resetState", 0) = 1
           /\ CancelsOf(c, 0) = 0
           /\ calls[c].out = "ok"
      /\ calls[c].err # NoErr => N(c, "update", 0) = 0

\* An eager connection that read zero accounts and has settled.
C9_Witness ==
  \E c \in Calls :
    /\ calls[c].kind = "eager" /\ calls[c].pc = "done"
    /\ calls[c].err = NoAccountsError /\ N(c, "resetState", 0) = 1

\* ---- C10 ---------------------------------------------------------------
\* The switch-chain request of call c's frame d was rejected with code 4902
\* while that frame held the caller's full chain parameters.
AddChainCase(c, d, code) ==
  code = UnrecognizedChain /\ d = 0 /\ calls[c].arg.t = "params"

\* What C10 asks of every other rejected switch-chain request: no add-chain
\* request, no recursion, and the call fails with the provider's error.
PropagatesUnchanged(c, d, code) ==
  /\ N(c, "wallet_addEthereumChain", d) = 0
  /\ N(c, "activate", d + 1) = 0
  /\ calls[c].pc = "done" => (calls[c].out = "err" /\ calls[c].err = RpcError(code))

\* What holds in the add-chain case whatever the answer to the add-chain
\* request: the request follows the rejection at once and is the only one,
\* and carries the desired chain id.
OneAddChainRequest(c, d, i) ==
  /\ N(c, "wallet_addEthereumChain", d) <= 1
  /\ N(c, "activate", d + 1) <= 1
  /\ i < Len(log[c]) =>
       log[c][i + 1] = Ev("wallet_addEthereumChain", c, d, calls[c].arg.id, <<>>)

\* C10 as stated: in the add-chain case the settled call has issued one
\* add-chain request and made one recursive activate.
C10_AddChainThenRecursion ==
  \A c \in Calls : \A i \in 1..Len(log[c]) :
    log[c][i].op = "switch.rejected" =>
      LET d == log[c][i].d
          code == log[c][i].chain
      IN IF AddChainCase(c, d, code)
         THEN /\ OneAddChainRequest(c, d, i)
              /\ calls[c].pc = "done" =>
                   /\ N(c, "wallet_addEthereumChain", d) = 1
                   /\ N(c, "activate", d + 1) = 1
         ELSE PropagatesUnchanged(c, d, code)

\* C10 as amended: in the add-chain case one add-chain request is issued;
\* when the provider accepts it, one recursive activate with the original
\* chain id follows it; when the provider rejects it, no recursion is made
\* and the call fails with that rejection.
C10_AddChainThenRecursionIfAccepted ==
  \A c \in Calls : \A i \in 1..Len(log[c]) :
    log[c][i].op = "switch.rejected" =>
      LET d == log[c][i].d
          code == log[c][i].chain
      IN IF AddChainCase(c, d, code)
         THEN /\ OneAddChainRequest(c, d, i)
              /\ \A j \in 1..Len(log[c]) :
                   /\ (log[c][j] = Plain("add.ok", c, d) /\ j < Len(log[c])) =>
                        log[c][j + 1] = Ev("activate", c, d + 1, calls[c].arg.id, <<>>)
                   /\ (log[c][j].op = "add.rejected" /\ log[c][j].d = d) =>
                        /\ N(c, "activate", d + 1) = 0
                        /\ calls[c].pc = "done" =>
                             (calls[c].out = "err" /\ calls[c].err = RpcError(log[c][j].chain))
              /\ calls[c].pc = "done" =>
                   /\ N(c, "wallet_addEthereumChain", d) = 1
                   /\ N(c, "add.ok", d) + N(c, "add.rejected", d) = 1
                   /\ N(c, "activate", d + 1) = N(c, "add.ok", d)
         ELSE PropagatesUnchanged(c, d, code)

\* A settled activate whose switch-chain request failed with 4902, whose
\* add-chain request was accepted, and which recursed once.
C10_Witness ==
  \E c \in Calls :
    /\ calls[c].pc = "done" /\ calls[c].arg.t = "params"
    /\ N(c, "wallet_addEthereumChain", 0) = 1 /\ N(c, "add.ok", 0) = 1
    /\ N(c, "activate", 1) = 1

\* ---- C11 ---------------------------------------------------------------
\* The step appends an update to the log of call c.
CommitsUpdate(c) ==
  /\ Len(log'[c]) = Len(log[c]) + 1
  /\ log'[c][Len(log'[c])].op = "update"

\* An update of a flow is committed by the handler of both results, the
\* chain-id request and the accounts request of the frame having completed,
\* and carries the chain id parsed from the one and the accounts of the other.
FlowCommitsBoth ==
  \A c \in Calls :
    CommitsUpdate(c) =>
      /\ calls[c].pc = "req" /\ calls[c].rc # <<>> /\ calls[c].ra # <<>>
      /\ log'[c][Len(log'[c])] =
           Ev("update", c, calls[c].d, parseChainId(calls[c].rc[1]), calls[c].ra[1])

\* Event e was delivered while a flow had its two requests outstanding, and a
\* listener answered it with an update carrying one field only.
PartialUpdateInFlight(e) ==
  /\ e.inflight
  /\ \E i \in 1..Len(e.did) : e.did[i].op \in {"update.chainId", "update.accounts"}

\* C11 as stated: a flow commits its update only once both requests have
\* completed, and no update carrying only one of chainId and accounts
\* reaches the action layer while a flow has its requests outstanding.
C11_NoPartialUpdateInFlight ==
  [][FlowCommitsBoth /\ ~PartialUpdateInFlight(lastEv')]_vars

\* C11 as amended: the update a flow itself commits is made only once both
\* of its requests have completed, and carries both chainId and accounts.
C11_FlowUpdateAfterBothRequests ==
  [][FlowCommitsBoth]_vars

\* A listener made a one-field update while the requests of a flow were
\* outstanding, and the flow then committed its update of both fields.
C11_Witness ==
  /\ PartialUpdateInFlight(lastEv)
  /\ \E c \in Calls :
       /\ calls[c].pc = "done" /\ N(c, "update", 0) = 1
       /\ \A i \in 1..Len(log[c]) :
            log[c][i].op = "update" => (log[c][i].chain >= 0 /\ Len(log[c][i].accs) > 0)

\* ---- C12 ---------------------------------------------------------------
\* The requests that ask the user for permission to read the accounts, and
\* the request that reads them silently.
ExplicitAccountRequests == {"eth_requestAccounts", "tron_requestAccounts"}
SilentAccountRequests == {"eth_accounts"}

\* C12: the explicit account request is issued by activate only, and a
\* connectEagerly reads the accounts with the silent request only.
C12_EagerNeverPrompts ==
  \A c \in Calls : \A i \in 1..Len(log[c]) :
    /\ log[c][i].op \in ExplicitAccountRequests => calls[c].kind = "activate"
    /\ log[c][i].op \in SilentAccountRequests => calls[c].kind = "eager"

\* ---- C13 ---------------------------------------------------------------
\* The connectEagerly call c has read a chain id and a non-empty account
\* list from the provider.
EagerReadBoth(c) ==
  /\ calls[c].kind = "eager"
  /\ calls[c].rc # <<>> /\ calls[c].ra # <<>>
  /\ Len(calls[c].ra[1]) > 0

\* C13: a connectEagerly that has read a hex chain id and a non-empty
\* account list never calls resetState or its cancellation token, and once
\* settled has called update exactly once, after its two requests, with the
\* chain id parsed from hex ("0x1" is 1, "0x1a" is 26) and the full list.
C13_EagerUpdatesOnce ==
  \A c \in Calls :
    EagerReadBoth(c) =>
      /\ N(c, "resetState", 0) = 0 /\ CancelsOf(c, 0) = 0
      /\ N(c, "update", 0) = (IF calls[c].pc = "done" THEN 1 ELSE 0)
      /\ calls[c].pc = "done" =>
           /\ calls[c].out = "ok"
           /\ log[c] = <<Plain("startActivation", c, 0), Plain("eth_chainId", c, 0),
                         Plain("eth_accounts", c, 0),
                         Ev("update", c, 0, parseChainId(calls[c].rc[1]), calls[c].ra[1])>>
           /\ log[c][4].chain = (IF calls[c].rc[1] = <<1>> THEN 1 ELSE 26)

\* A settled connectEagerly that read "0x1a" and one account, while another
\* call was made on the instance.
C13_Witness ==
  \E c \in Calls :
    /\ EagerReadBoth(c) /\ calls[c].pc = "done"
    /\ calls[c].rc[1] = <<1, 10>>
    /\ log[c][4] = Ev("update", c, 0, 26, <<"a1">>)
    /\ \E k \in Calls \ {c} : calls[k].pc # "idle"

\* ---- C14 ---------------------------------------------------------------
\* The step is a call of detectTronProvider made while window.tronLink is
\* populated.
DetectsPopulatedSlot == detCalls' = detCalls + 1 /\ slot # "none"

\* C14: a call of detect made while the slot is populated has resolved when
\* it returns, at the instant of the call, having registered neither the
\* event listener nor the timer; it resolves to the provider in the slot, or
\* to null when mustBeTronLink is set and the provider is not TronLink.
C14_PopulatedSlotResolvesAtOnce ==
  [][DetectsPopulatedSlot =>
       /\ detResult' = (IF mustBeTronLink /\ slot # "tronlink" THEN "null" ELSE slot)
       /\ resolvedAt' = now /\ handleRuns' = 1 /\ resolveCalls' = 1
       /\ ~listening' /\ timer' = "none"]_vars

\* detect was called with mustBeTronLink while the slot held a provider that
\* is not TronLink: it resolved to null with no listener and no timer.
C14_Witness ==
  /\ detCalls = 1 /\ mustBeTronLink /\ slot = "other"
  /\ detResult = "null" /\ resolvedAt = now
  /\ ~listening /\ timer = "none"

\* ---- C15 ---------------------------------------------------------------
\* The errors of watchAsset, in either variant.
NoProviderErrors == {NoProviderError, TronLinkError(NoProviderCode)}
RejectedErrors == {RejectedError, TronLinkError(UserRejected)}

\* The step in which watchAsset is called as call c: without a provider it
\* fails with "No provider" and issues nothing; with one it issues the
\* wallet_watchAsset request and waits.
WatchCallStep(c) ==
  (calls[c].pc = "idle" /\ calls'[c].kind = "watch") =>
    IF provider = "unset"
    THEN /\ calls'[c].pc = "done" /\ calls'[c].out = "err"
         /\ calls'[c].err \in NoProviderErrors
         /\ log'[c] = <<>>
    ELSE /\ calls'[c].pc = "wreq"
         /\ log'[c] = <<Plain("wallet_watchAsset", c, 0)>>

\* The steps of a watchAsset call after the request: no further request is
\* issued, and the call settles on the provider's answer: true for a truthy
\* result, a "Rejected" error for a falsy one, the provider's own error when
\* the request was rejected.
WatchSettleStep(c) ==
  (calls[c].kind = "watch" /\ calls[c].pc = "wreq") =>
    /\ log'[c] = log[c]
    /\ calls'[c].pc \in {"wreq", "done"}
    /\ calls'[c].pc = "done" =>
         IF calls[c].rc = <<>>
         THEN calls'[c].out = "err" /\ calls'[c].err \notin (NoProviderErrors \cup RejectedErrors)
         ELSE IF calls[c].rc[1]
              THEN calls'[c].out = "true" /\ calls'[c].err = NoErr
              ELSE calls'[c].out = "err" /\ calls'[c].err \in RejectedErrors

\* C15: watchAsset without a provider fails with "No provider" and issues
\* no request; with a provider it issues exactly one wallet_watchAsset
\* request, never a second one, fails with "Rejected" on a falsy result and
\* resolves true on a truthy result.
C15_WatchAssetOnce ==
  [][\A c \in Calls : WatchCallStep(c) /\ WatchSettleStep(c)]_vars

\* A watchAsset that issued its one request, got a falsy result and failed
\* with the rejection error.
C15_Witness ==
  \E c \in Calls :
    /\ calls[c].kind = "watch" /\ calls[c].pc = "done"
    /\ calls[c].rc = <<FALSE>> /\ calls[c].err \in RejectedErrors
    /\ log[c] = <<Plain("wallet_watchAsset", c, 0)>>

\* ---- C16 ---------------------------------------------------------------
\* C16: an operation of a signer whose bound object is absent has settled
\* as a rejected promise carrying "No provider", and has called no
\* externally-owned method.
C16_AbsentObjectRejects ==
  (signer.bound = "undefined" /\ signer.pc = "done") =>
    /\ signer.out = "rejected" /\ signer.err = "No provider"
    /\ signer.ext = <<>>

\* ---- C17 ---------------------------------------------------------------
\* How many requests with the given method call c has issued, in all the
\* frames of its recursion.
Requests(c, method) ==
  Cardinality({i \in 1..Len(log[c]) : log[c][i].op = method})

\* C17: a top-level activate asks the provider to switch chains once, and
\* once more only after the add-chain fallback, which it takes at most once:
\* the re-verification never repeats a switch-chain request that the
\* provider had accepted.
C17_NoRetryBeyondFallback ==
  \A c \in Calls :
    calls[c].kind = "activate" =>
      /\ Requests(c, "wallet_addEthereumChain") <= 1
      /\ Requests(c, "wallet_switchEthereumChain") <=
           1 + Requests(c, "wallet_addEthereumChain")

\* ---- C18 ---------------------------------------------------------------
\* C18: the listeners answer a disconnect event with one resetState call
\* followed by the onError report and nothing else, an accountsChanged
\* event that carries a non-empty list with one update of the accounts
\* alone, and a chainChanged event with one update of the chain id alone.
C18_ListenerEffects ==
  /\ lastEv.ev \in {"disconnect", "disconnectWeb"} =>
       lastEv.did = <<Plain("resetState", 0, 0), Plain("onError", 0, 0)>>
  /\ (lastEv.ev = "accountsChanged" /\ lastEv.accs # <<>>) =>
       lastEv.did = <<Ev("update.accounts", 0, 0, -1, lastEv.accs)>>
  /\ lastEv.ev = "chainChanged" =>
       lastEv.did = <<Ev("update.chainId", 0, 0, parseChainId(lastEv.hex), <<>>)>>

\* ---- C19 ---------------------------------------------------------------
\* Detection has resolved to an object with a non-empty providers list, and
\* the initializer has run.
InitializedFromContainer ==
  /\ eagerConnection = "done"
  /\ detResult \notin {"pending", "null"}
  /\ Len(Siblings(detResult)) > 0

\* C19: initialized from an object with a non-empty providers list, the
\* connector's provider is the first sibling flagged isTronLink (no sibling
\* before it is flagged), or the first entry when no sibling is flagged,
\* and the listeners are attached to that provider alone, not to the
\* detected container.
C19_SiblingSelected ==
  InitializedFromContainer =>
    LET sib == Siblings(detResult) IN
    /\ \E i \in 1..Len(sib) :
         /\ provider = sib[i]
         /\ \A j \in 1..(i - 1) : ~IsTronLink(sib[j])
         /\ IsTronLink(sib[i]) \/ (i = 1 /\ \A j \in 1..Len(sib) : ~IsTronLink(sib[j]))
    /\ listenerSets = 1 /\ listenersOn = {provider}
    /\ detResult \notin listenersOn

\* Initialized from the container whose first flagged sibling is its second
\* entry: that sibling is the provider and carries the listeners.
C19_Witness ==
  /\ InitializedFromContainer /\ detResult = "multi"
  /\ provider = "tronlinkA" /\ listenersOn = {"tronlinkA"}

\* ---- C20 ---------------------------------------------------------------
\* C20: once detection has resolved to no provider, the detector has been
\* called once and is not called again, the provider is unset and no
\* listener is attached, whatever the wallet puts into window.tronLink
\* afterwards; every activate that settles has failed with NoTronLinkError
\* having only started and cancelled its token, and every connectEagerly
\* that settles has resolved having only started and cancelled its token.
C20_AbsenceIsFinal ==
  detResult = "null" =>
    /\ detCalls = 1
    /\ provider = "unset" /\ listenerSets = 0 /\ listenersOn = {}
    /\ \A c \in Calls :
         (calls[c].pc = "done" /\ calls[c].kind \in {"activate", "eager"}) =>
           /\ log[c] = <<Plain("startActivation", c, 0), Plain("cancel", c, 0)>>
           /\ calls[c].kind = "activate" =>
                (calls[c].out = "err" /\ calls[c].err = NoTronLinkError)
           /\ calls[c].kind = "eager" => (calls[c].out = "ok" /\ calls[c].err = NoErr)

\* Detection found nothing, the wallet then populated the slot and announced
\* itself, and an activate made after the first call of the instance has
\* failed with NoTronLinkError.
C20_Witness ==
  /\ detResult = "null" /\ slot # "none" /\ announced
  /\ \E c \in Calls :
       /\ calls[c].kind = "activate" /\ calls[c].pc = "done" /\ ~calls[c].first
       /\ calls[c].err = NoTronLinkError

====
